---------------------------- MODULE Spec2Model ----------------------------
(***************************************************************************)
(* A model of the TeenyJVM interpreter of jvm.c: execute(), the dispatch   *)
(* loop with one action per case of its switch, the recursive call made by *)
(* invokestatic (a call step, the callee's steps, a return step and the    *)
(* caller's resumption), and the part of main() that runs the main method. *)
(*                                                                         *)
(* Words are int32_t.  TLC's integers are 32-bit too, so a word is held as *)
(* the integer it denotes and every C operation is computed without an     *)
(* intermediate value outside INT32_MIN .. INT32_MAX.                      *)
(*                                                                         *)
(* Where the C code has undefined behaviour (signed overflow, a shift by   *)
(* 32 or more, INT32_MIN / -1) the operator yields the SET of outcomes a   *)
(* build can produce: the value the target's instruction gives, and a      *)
(* trap that ends the process.  The same holds for a push onto a full      *)
(* operand stack and for a read of the code array at code_length or        *)
(* beyond: the access goes to the memory behind the block, or the build    *)
(* stops the process.                                                      *)
(***************************************************************************)
EXTENDS Integers, Sequences, FiniteSets, TLC

VARIABLES
    class,      \* the parsed class file: constant pool and methods (never changes)
    frames,     \* the chain of active execute() calls, main's first; the last one runs
    result,     \* the optional_value_t an execute() call has just returned
    heap,       \* heap_t: the arrays registered by heap_add, reference r at heap[r + 1]
    out,        \* the integers printf("%i\n") has written to standard output, in order
    status,     \* "running", "exited" (main returned 0), "aborted" (assert), "trapped"
    allocated   \* the blocks calloc'ed for operand stacks and callee locals, not yet freed

vars == <<class, frames, result, heap, out, status, allocated>>

----------------------------------------------------------------------------
(* int32_t *)

INT32_MAX == 2147483647
INT32_MIN == -INT32_MAX - 1

(* An outcome of a C expression: a value, or the process ending in a trap. *)
Val(v) == [trap |-> FALSE, val |-> v]
Trap == [trap |-> TRUE, val |-> 0]

(* What an expression with undefined behaviour can do: the value the      *)
(* target instruction computes, or a trap (-ftrapv, a sanitizer, SIGFPE).  *)
Undefined(vs) == {Val(v) : v \in vs} \cup {Trap}

(* a + b reduced modulo 2^32 into int32_t *)
WrapAdd(a, b) ==
    IF b > 0 /\ a > INT32_MAX - b THEN ((a - INT32_MAX) - 1) + ((b - INT32_MAX) - 1)
    ELSE IF b < 0 /\ a < INT32_MIN - b THEN ((a + INT32_MAX) + 1) + ((b + INT32_MAX) + 1)
    ELSE a + b

AddOverflows(a, b) ==
    \/ b > 0 /\ a > INT32_MAX - b
    \/ b < 0 /\ a < INT32_MIN - b

(* -a reduced modulo 2^32 *)
WrapNeg(a) == IF a = INT32_MIN THEN INT32_MIN ELSE -a

(* a - b reduced modulo 2^32 *)
WrapSub(a, b) ==
    IF b < 0 /\ a > INT32_MAX + b THEN ((a - INT32_MAX) - 1) - ((b + INT32_MAX) + 1)
    ELSE IF b > 0 /\ a < INT32_MIN + b THEN ((a + INT32_MAX) + 1) - ((b - INT32_MAX) - 1)
    ELSE a - b

SubOverflows(a, b) ==
    \/ b < 0 /\ a > INT32_MAX + b
    \/ b > 0 /\ a < INT32_MIN + b

(* C's a / b for b > 0: the quotient truncated toward zero *)
TruncDivPos(a, b) ==
    IF a < 0 /\ a % b # 0 THEN (a \div b) + 1 ELSE a \div b

(* the mathematical product a * b is outside int32_t *)
MulOverflows(a, b) ==
    IF a = 0 \/ b = 0 THEN FALSE
    ELSE IF a = INT32_MIN THEN b # 1
    ELSE IF b = INT32_MIN THEN a # 1
    ELSE IF a > 0 /\ b > 0 THEN a > INT32_MAX \div b
    ELSE IF a < 0 /\ b < 0 THEN -a > INT32_MAX \div (-b)
    ELSE IF a < 0 THEN a < TruncDivPos(INT32_MIN, b)
    ELSE b < TruncDivPos(INT32_MIN, a)

(* C's a / b, defined for b # 0 and (a, b) # (INT32_MIN, -1) *)
TruncDiv(a, b) ==
    IF b > 0 THEN TruncDivPos(a, b)
    ELSE IF b = INT32_MIN THEN (IF a = INT32_MIN THEN 1 ELSE 0)
    ELSE -TruncDivPos(a, -b)

(* C's a % b: a - (a / b) * b *)
TruncRem(a, b) == a - TruncDiv(a, b) * b

RECURSIVE Pow2(_)
Pow2(n) == IF n = 0 THEN 1 ELSE 2 * Pow2(n - 1)

(* a * 2^n reduced modulo 2^32, 0 <= n: the low 32 - n bits of a moved up  *)
(* by n; bit 31 - n of a becomes the sign                                  *)
WrapShl(a, n) ==
    IF n = 0 THEN a
    ELSE IF n >= 32 THEN 0
    ELSE LET low == IF n = 31 THEN 0 ELSE (a % Pow2(31 - n)) * Pow2(n)
         IN IF (a \div Pow2(31 - n)) % 2 = 1 THEN (low - INT32_MAX) - 1 ELSE low

(* a * b reduced modulo 2^32, from the 16-bit halves of a and b:           *)
(* al * bl + 2^16 * (ah * bl + al * bh), al * bl taken bytewise            *)
WrapMul(a, b) ==
    LET al == a % 65536
        ah == a \div 65536
        bl == b % 65536
        bh == b \div 65536
    IN WrapAdd(WrapAdd(al * (bl % 256), WrapShl(al * (bl \div 256), 8)),
               WrapShl(((ah * bl) % 65536) + ((al * bh) % 65536), 16))

(* the arithmetic shift: floor(a / 2^n), 0 <= n *)
ArithShr(a, n) == IF n >= 31 THEN (IF a < 0 THEN -1 ELSE 0) ELSE a \div Pow2(n)

(* the logical shift of the unsigned pattern of a by n, 0 <= n, as int32_t *)
LogicShr(a, n) ==
    IF n = 0 THEN a
    ELSE IF n >= 32 THEN 0
    ELSE IF a >= 0 THEN ArithShr(a, n)
    ELSE ArithShr(((a \div 2) + INT32_MAX) + 1, n - 1)

(* bitwise operators on two's-complement words *)
RECURSIVE BitAnd(_, _)
BitAnd(a, b) ==
    IF a = 0 \/ b = 0 THEN 0
    ELSE IF a = -1 THEN b
    ELSE IF b = -1 THEN a
    ELSE 2 * BitAnd(a \div 2, b \div 2) + (a % 2) * (b % 2)

RECURSIVE BitOr(_, _)
BitOr(a, b) ==
    IF a = 0 THEN b
    ELSE IF b = 0 THEN a
    ELSE IF a = -1 \/ b = -1 THEN -1
    ELSE 2 * BitOr(a \div 2, b \div 2) + (IF a % 2 = 1 \/ b % 2 = 1 THEN 1 ELSE 0)

RECURSIVE BitXor(_, _)
BitXor(a, b) ==
    IF a = 0 THEN b
    ELSE IF b = 0 THEN a
    ELSE IF a = -1 THEN (-1) - b
    ELSE IF b = -1 THEN (-1) - a
    ELSE 2 * BitXor(a \div 2, b \div 2) + (((a % 2) + (b % 2)) % 2)

(* the conversions of the immediates *)
(* a variant of the cast that keeps the byte unsigned *)
zero_extended(byte) == byte

int8_t(byte) == IF byte >= 128 THEN byte - 256 ELSE byte
int16_t(b1, b2) == LET u == b1 * 256 + b2 IN IF u >= 32768 THEN u - 65536 ELSE u

----------------------------------------------------------------------------
(* jvm_instruction_t: the opcode bytes named by the case labels of execute() *)

i_nop == 0
i_iconst_m1 == 2
i_iconst_5 == 8
i_bipush == 16
i_sipush == 17
i_ldc == 18
i_iload == 21
i_aload == 25
i_iload_0 == 26
i_iload_3 == 29
i_aload_0 == 42
i_aload_3 == 45
i_iaload == 46
i_istore == 54
i_astore == 58
i_istore_0 == 59
i_istore_3 == 62
i_astore_0 == 75
i_astore_3 == 78
i_iastore == 79
i_dup == 89
i_iadd == 96
i_isub == 100
i_imul == 104
i_idiv == 108
i_irem == 112
i_ineg == 116
i_ishl == 120
i_ishr == 122
i_iushr == 124
i_iand == 126
i_ior == 128
i_ixor == 130
i_iinc == 132
i_ifeq == 153
i_ifne == 154
i_iflt == 155
i_ifge == 156
i_ifgt == 157
i_ifle == 158
i_if_icmpeq == 159
i_if_icmpne == 160
i_if_icmplt == 161
i_if_icmpge == 162
i_if_icmpgt == 163
i_if_icmple == 164
i_goto == 167
i_ireturn == 172
i_areturn == 176
i_return == 177
i_getstatic == 178
i_invokevirtual == 182
i_invokestatic == 184
i_newarray == 188
i_arraylength == 190

----------------------------------------------------------------------------
(* The values of the C expressions of the arithmetic cases.  `top` is      *)
(* operand_stack[stack_count - 1] and `sec` is operand_stack[stack_count   *)
(* - 2].  Each is the set of outcomes of the expression.                   *)

iadd_value(top, sec) ==
    IF AddOverflows(top, sec) THEN Undefined({WrapAdd(top, sec)})
    ELSE {Val(top + sec)}

isub_value(sec, top) ==
    IF SubOverflows(sec, top) THEN Undefined({WrapSub(sec, top)})
    ELSE {Val(sec - top)}

imul_value(sec, top) ==
    IF MulOverflows(sec, top) THEN Undefined({WrapMul(sec, top)})
    ELSE {Val(sec * top)}

(* top # 0 is asserted before.  INT32_MIN / -1 is not representable: the  *)
(* division instruction of x86 raises SIGFPE, that of ARM gives INT32_MIN. *)
idiv_value(sec, top) ==
    IF sec = INT32_MIN /\ top = -1 THEN Undefined({INT32_MIN})
    ELSE {Val(TruncDiv(sec, top))}

irem_value(sec, top) ==
    IF sec = INT32_MIN /\ top = -1 THEN Undefined({0})
    ELSE {Val(TruncRem(sec, top))}

(* -1 * val *)
ineg_value(val) ==
    IF MulOverflows(-1, val) THEN Undefined({WrapMul(-1, val)})
    ELSE {Val(-1 * val)}

(* sec << top, top >= 0 asserted before.  The C shift is undefined for a   *)
(* count of 32 or more (x86 and AArch64 use the count modulo 32, other     *)
(* targets shift every bit out), and << is undefined for a negative sec or *)
(* a result outside int32_t (the instruction keeps the low 32 bits).       *)
ishl_value(sec, top) ==
    IF top >= 32 THEN Undefined({WrapShl(sec, top % 32), 0})
    ELSE IF sec < 0 \/ sec > ArithShr(INT32_MAX, top) THEN Undefined({WrapShl(sec, top)})
    ELSE {Val(WrapShl(sec, top))}

(* sec >> top on int32_t: arithmetic for a negative sec *)
ishr_value(sec, top) ==
    IF top >= 32 THEN Undefined({ArithShr(sec, top % 32), ArithShr(sec, 31)})
    ELSE {Val(ArithShr(sec, top))}

(* (u4) sec >> top, stored back into an int32_t *)
iushr_value(sec, top) ==
    IF top >= 32 THEN Undefined({LogicShr(sec, top % 32), 0})
    ELSE {Val(LogicShr(sec, top))}

(* locals[i] += (int8_t) c *)
iinc_value(local, c) ==
    IF AddOverflows(local, int8_t(c)) THEN Undefined({WrapAdd(local, int8_t(c))})
    ELSE {Val(local + int8_t(c))}

(* pc += (int16_t)((b1 << 8) | b2), pc a size_t: a target below 0 wraps to *)
(* 2^64 + pc + d, which is held here as the negative number pc + d.        *)
branch_target(pc, b1, b2) == pc + int16_t(b1, b2)

(* operand_stack[stack_count] = code[pc] - 3 *)
iconst_value(opcode) == opcode - 3

----------------------------------------------------------------------------
(* The collaborators of jvm.c: read_class.h and heap.h *)

(* method_t *find_method_from_index(index, class): the method that the     *)
(* Methodref entry at 1-based constant-pool index `index` names.           *)
find_method_from_index(index, cls) == cls.constant_pool[index].method

(* uint16_t get_number_of_parameters(method): read off the descriptor *)
get_number_of_parameters(meth) == meth.parameters

(* find_method(MAIN_METHOD, MAIN_DESCRIPTOR, class) *)
find_method_main(cls) == cls.main

(* int32_t heap_add(heap, ptr): registers the array, returns its reference *)
heap_add_ref(h) == Len(h)
heap_add(h, array) == Append(h, array)

(* int32_t *heap_get(heap, ref) *)
heap_get(h, ref) == h[ref + 1]

heap_has(h, ref) == ref >= 0 /\ ref < Len(h)

----------------------------------------------------------------------------
(* The running activation *)

NoResult == [returned |-> FALSE, has_value |-> FALSE, value |-> 0]

cur == frames[Len(frames)]
method == class.methods[cur.method]
code(i) == method.code.code[i + 1]
sp == cur.stack_count
stack(i) == cur.operand_stack[i]

(* calloc(sizeof(int32_t), n): n words, all 0, indexed from 0 *)
calloc(n) == [i \in 0 .. n - 1 |-> 0]

(* the block calloc returns: one that is not among the allocated blocks a; *)
(* blocks are numbered from 1, and 0 stands for no block                   *)
calloc_block(a) == CHOOSE p \in 1 .. Cardinality(a) + 1 : p \notin a

(* free(p): block p is no longer allocated *)
free(a, p) == a \ {p}

(* while (pc < method->code.code_length), pc unsigned *)
InLoop ==
    /\ status = "running"
    /\ frames # <<>>
    /\ ~result.returned
    /\ cur.pc >= 0
    /\ cur.pc < method.code.code_length

(* switch (method->code.code[pc]) selects the case of `op`; the case may   *)
(* read `n` operand bytes after the opcode.  Nothing compares pc + n with  *)
(* code_length: a read at code_length or beyond returns the byte that      *)
(* follows the code array in memory (the bytes of `code` after the first   *)
(* code_length ones), unless the build stops it (read_past_code).          *)
Fetch(op, n) ==
    /\ InLoop
    /\ code(cur.pc) = op
    /\ cur.pc + n < Len(method.code.code)

(* the case ends at `break` with the activation changed to f *)
Break(f) ==
    /\ frames' = [frames EXCEPT ![Len(frames)] = f]
    /\ UNCHANGED <<class, result, heap, out, status, allocated>>

(* the process ends: a failed assert ("aborted") or a trap ("trapped") *)
Die(how) ==
    /\ status' = how
    /\ UNCHANGED <<class, frames, result, heap, out, allocated>>

(* operand_stack[stack_count] = v; stack_count += 1; pc += n *)
(* The write goes to the word at index stack_count whether or not the     *)
(* calloc'ed block has max_stack or more words.                            *)
Pushed(f, v, n) ==
    [f EXCEPT !.operand_stack =
                  [i \in DOMAIN f.operand_stack \cup {f.stack_count} |->
                      IF i = f.stack_count THEN v ELSE f.operand_stack[i]],
              !.stack_count = @ + 1,
              !.pc = @ + n]

CanPush == sp < method.code.max_stack

(* a case that pushes v and adds n to pc.  With stack_count = max_stack    *)
(* the write is past the end of the operand stack's block: the build       *)
(* either stops the process there or stores the word behind the block and  *)
(* goes on.                                                                *)
Push(v, n) ==
    IF CanPush THEN Break(Pushed(cur, v, n))
    ELSE \/ Die("trapped")
         \/ Break(Pushed(cur, v, n))

(* operand_stack[stack_count - 2] = v; stack_count -= 1; pc += 1 *)
Binary(f, v) ==
    [f EXCEPT !.operand_stack[f.stack_count - 2] = v,
              !.stack_count = @ - 1,
              !.pc = @ + 1]

(* the case of a binary operator whose expression has the outcomes rs *)
BinaryCase(rs) ==
    \E r \in rs : IF r.trap THEN Die("trapped") ELSE Break(Binary(cur, r.val))

InLocals(i) == i >= 0 /\ i < method.code.max_locals

----------------------------------------------------------------------------
(* execute(): one action per case of the switch *)

case_bipush ==
    /\ Fetch(i_bipush, 1)
    /\ Push(int8_t(code(cur.pc + 1)), 2)

case_iadd ==
    /\ Fetch(i_iadd, 0) /\ sp >= 2
    /\ BinaryCase(iadd_value(stack(sp - 1), stack(sp - 2)))

(* a variant of the return that discards the arrays with the frame, as if  *)
(* the heap belonged to the activation                                     *)
Return_discarding_heap(res) ==
    /\ result' = res
    /\ allocated' = free(allocated, cur.operand_stack_block)
    /\ frames' = SubSeq(frames, 1, Len(frames) - 1)
    /\ heap' = << >>
    /\ UNCHANGED <<class, out, status>>

(* return result; leaves the activation: its frame goes, the result is     *)
(* with the caller.                                                        *)
Return(res) ==
    /\ result' = res
    /\ allocated' = free(allocated, cur.operand_stack_block)
    /\ frames' = SubSeq(frames, 1, Len(frames) - 1)
    /\ UNCHANGED <<class, heap, out, status>>

case_return ==
    /\ Fetch(i_return, 0)
    /\ Return([returned |-> TRUE, has_value |-> FALSE, value |-> 0])

case_getstatic ==
    /\ Fetch(i_getstatic, 0)
    /\ Break([cur EXCEPT !.pc = @ + 3])

(* printf("%i\n", operand_stack[stack_count - 1]): one line of output *)
printf(o, v) == Append(o, v)

(* a variant of case i_invokevirtual that prints the top of the stack and  *)
(* leaves it there                                                         *)
invokevirtual_without_pop ==
    /\ Fetch(i_invokevirtual, 0) /\ sp >= 1
    /\ out' = printf(out, stack(sp - 1))
    /\ frames' = [frames EXCEPT ![Len(frames)] = [cur EXCEPT !.pc = @ + 3]]
    /\ UNCHANGED <<class, result, heap, status, allocated>>

case_invokevirtual ==
    /\ Fetch(i_invokevirtual, 0) /\ sp >= 1
    /\ out' = printf(out, stack(sp - 1))
    /\ frames' = [frames EXCEPT ![Len(frames)] =
                     [cur EXCEPT !.stack_count = @ - 1, !.pc = @ + 3]]
    /\ UNCHANGED <<class, result, heap, status, allocated>>

case_iconst ==
    /\ \E op \in i_iconst_m1 .. i_iconst_5 : Fetch(op, 0)
    /\ Push(iconst_value(code(cur.pc)), 1)

case_sipush ==
    /\ Fetch(i_sipush, 2)
    /\ Push(int16_t(code(cur.pc + 1), code(cur.pc + 2)), 3)

case_isub ==
    /\ Fetch(i_isub, 0) /\ sp >= 2
    /\ BinaryCase(isub_value(stack(sp - 2), stack(sp - 1)))

case_imul ==
    /\ Fetch(i_imul, 0) /\ sp >= 2
    /\ BinaryCase(imul_value(stack(sp - 2), stack(sp - 1)))

case_idiv ==
    /\ Fetch(i_idiv, 0) /\ sp >= 2
    /\ IF stack(sp - 1) # 0
       THEN BinaryCase(idiv_value(stack(sp - 2), stack(sp - 1)))
       ELSE Die("aborted")

(* a variant of case i_irem that pushes 0 for a divisor of 0 *)
irem_of_zero_is_zero ==
    /\ Fetch(i_irem, 0) /\ sp >= 2
    /\ IF stack(sp - 1) # 0
       THEN BinaryCase(irem_value(stack(sp - 2), stack(sp - 1)))
       ELSE Break(Binary(cur, 0))

case_irem ==
    /\ Fetch(i_irem, 0) /\ sp >= 2
    /\ IF stack(sp - 1) # 0
       THEN BinaryCase(irem_value(stack(sp - 2), stack(sp - 1)))
       ELSE Die("aborted")

case_ineg ==
    /\ Fetch(i_ineg, 0) /\ sp >= 1
    /\ \E r \in ineg_value(stack(sp - 1)) :
          IF r.trap THEN Die("trapped")
          ELSE Break([cur EXCEPT !.operand_stack[sp - 1] = r.val, !.pc = @ + 1])

case_ishl ==
    /\ Fetch(i_ishl, 0) /\ sp >= 2
    /\ IF stack(sp - 1) >= 0
       THEN BinaryCase(ishl_value(stack(sp - 2), stack(sp - 1)))
       ELSE Die("aborted")

case_ishr ==
    /\ Fetch(i_ishr, 0) /\ sp >= 2
    /\ IF stack(sp - 1) >= 0
       THEN BinaryCase(ishr_value(stack(sp - 2), stack(sp - 1)))
       ELSE Die("aborted")

case_iushr ==
    /\ Fetch(i_iushr, 0) /\ sp >= 2
    /\ IF stack(sp - 1) >= 0
       THEN BinaryCase(iushr_value(stack(sp - 2), stack(sp - 1)))
       ELSE Die("aborted")

case_iand ==
    /\ Fetch(i_iand, 0) /\ sp >= 2
    /\ Break(Binary(cur, BitAnd(stack(sp - 2), stack(sp - 1))))

case_ior ==
    /\ Fetch(i_ior, 0) /\ sp >= 2
    /\ Break(Binary(cur, BitOr(stack(sp - 2), stack(sp - 1))))

case_ixor ==
    /\ Fetch(i_ixor, 0) /\ sp >= 2
    /\ Break(Binary(cur, BitXor(stack(sp - 2), stack(sp - 1))))

case_iload ==
    /\ Fetch(i_iload, 1) /\ InLocals(code(cur.pc + 1))
    /\ Push(cur.locals[code(cur.pc + 1)], 2)

case_iload_n ==
    /\ \E op \in i_iload_0 .. i_iload_3 : Fetch(op, 0)
    /\ InLocals(code(cur.pc) - i_iload_0)
    /\ Push(cur.locals[code(cur.pc) - i_iload_0], 1)

(* locals[i] = operand_stack[stack_count - 1]; stack_count -= 1; pc += n *)
Stored(f, i, n) ==
    [f EXCEPT !.locals[i] = f.operand_stack[f.stack_count - 1],
              !.stack_count = @ - 1,
              !.pc = @ + n]

case_istore ==
    /\ Fetch(i_istore, 1) /\ sp >= 1 /\ InLocals(code(cur.pc + 1))
    /\ Break(Stored(cur, code(cur.pc + 1), 2))

case_istore_n ==
    /\ \E op \in i_istore_0 .. i_istore_3 : Fetch(op, 0)
    /\ sp >= 1 /\ InLocals(code(cur.pc) - i_istore_0)
    /\ Break(Stored(cur, code(cur.pc) - i_istore_0, 1))

case_iinc ==
    /\ Fetch(i_iinc, 2) /\ InLocals(code(cur.pc + 1))
    /\ \E r \in iinc_value(cur.locals[code(cur.pc + 1)], code(cur.pc + 2)) :
          IF r.trap THEN Die("trapped")
          ELSE Break([cur EXCEPT !.locals[code(cur.pc + 1)] = r.val, !.pc = @ + 3])

(* the bytes of the Integer entry class->constant_pool[b - 1]: the entry  *)
(* with the 1-based index b                                              *)
ldc_value(cls, b) == cls.constant_pool[b].bytes

case_ldc ==
    /\ Fetch(i_ldc, 1)
    /\ LET b == code(cur.pc + 1) IN
          /\ b >= 1 /\ b <= Len(class.constant_pool)
          /\ class.constant_pool[b].tag = "Integer"
          /\ Push(ldc_value(class, b), 2)

(* a conditional branch: pc += displacement if `cond`, else pc += 3, and   *)
(* stack_count -= n in both arms                                           *)
Branched(f, cond, n) ==
    [f EXCEPT !.pc = IF cond THEN branch_target(f.pc, code(f.pc + 1), code(f.pc + 2))
                     ELSE f.pc + 3,
              !.stack_count = @ - n]

case_ifeq ==
    /\ Fetch(i_ifeq, 2) /\ sp >= 1
    /\ Break(Branched(cur, stack(sp - 1) = 0, 1))

case_ifne ==
    /\ Fetch(i_ifne, 2) /\ sp >= 1
    /\ Break(Branched(cur, stack(sp - 1) # 0, 1))

case_iflt ==
    /\ Fetch(i_iflt, 2) /\ sp >= 1
    /\ Break(Branched(cur, stack(sp - 1) < 0, 1))

case_ifge ==
    /\ Fetch(i_ifge, 2) /\ sp >= 1
    /\ Break(Branched(cur, stack(sp - 1) >= 0, 1))

case_ifgt ==
    /\ Fetch(i_ifgt, 2) /\ sp >= 1
    /\ Break(Branched(cur, stack(sp - 1) > 0, 1))

case_ifle ==
    /\ Fetch(i_ifle, 2) /\ sp >= 1
    /\ Break(Branched(cur, stack(sp - 1) <= 0, 1))

case_if_icmpeq ==
    /\ Fetch(i_if_icmpeq, 2) /\ sp >= 2
    /\ Break(Branched(cur, stack(sp - 2) = stack(sp - 1), 2))

case_if_icmpne ==
    /\ Fetch(i_if_icmpne, 2) /\ sp >= 2
    /\ Break(Branched(cur, stack(sp - 2) # stack(sp - 1), 2))

(* a variant of case i_if_icmplt that compares top < second *)
if_icmplt_swapped ==
    /\ Fetch(i_if_icmplt, 2) /\ sp >= 2
    /\ Break(Branched(cur, stack(sp - 1) < stack(sp - 2), 2))

case_if_icmplt ==
    /\ Fetch(i_if_icmplt, 2) /\ sp >= 2
    /\ Break(Branched(cur, stack(sp - 2) < stack(sp - 1), 2))

case_if_icmpge ==
    /\ Fetch(i_if_icmpge, 2) /\ sp >= 2
    /\ Break(Branched(cur, stack(sp - 2) >= stack(sp - 1), 2))

case_if_icmpgt ==
    /\ Fetch(i_if_icmpgt, 2) /\ sp >= 2
    /\ Break(Branched(cur, stack(sp - 2) > stack(sp - 1), 2))

case_if_icmple ==
    /\ Fetch(i_if_icmple, 2) /\ sp >= 2
    /\ Break(Branched(cur, stack(sp - 2) <= stack(sp - 1), 2))

case_goto ==
    /\ Fetch(i_goto, 2)
    /\ Break(Branched(cur, TRUE, 0))

case_ireturn ==
    /\ Fetch(i_ireturn, 0) /\ sp >= 1
    /\ Return([returned |-> TRUE, has_value |-> TRUE, value |-> stack(sp - 1)])

(* for (i = len - 1; i >= 0; i--) { locals_queue[i] = operand_stack[      *)
(* stack_count - 1]; stack_count -= 1; }                                   *)
(* a variant of the argument loop that fills the locals from index 0 up,   *)
(* so that the last pushed argument becomes the first parameter            *)
marshal_from_front(locals_queue, operand_stack, stack_count, i) ==
    [locals |-> [k \in DOMAIN locals_queue |->
                    IF k <= i THEN operand_stack[stack_count - 1 - k]
                    ELSE locals_queue[k]],
     stack_count |-> stack_count - (i + 1)]

RECURSIVE marshal(_, _, _, _)
marshal(locals_queue, operand_stack, stack_count, i) ==
    IF i < 0 THEN [locals |-> locals_queue, stack_count |-> stack_count]
    ELSE marshal([locals_queue EXCEPT ![i] = operand_stack[stack_count - 1]],
                 operand_stack, stack_count - 1, i - 1)

(* the state of execute() on entry: pc = 0, a zeroed operand stack in the  *)
(* block calloc returned, no callee's locals allocated                     *)
Activation(m, locals, block) ==
    [method |-> m, pc |-> 0,
     operand_stack |-> calloc(class.methods[m].code.max_stack),
     operand_stack_block |-> block,
     stack_count |-> 0,
     locals |-> locals,
     locals_queue |-> 0]

(* a variant of the call that also writes the arguments into the caller's *)
(* own locals                                                              *)
invokestatic_into_own_locals ==
    /\ Fetch(i_invokestatic, 2)
    /\ LET index == int16_t(code(cur.pc + 1), code(cur.pc + 2)) IN
          /\ index >= 1 /\ index <= Len(class.constant_pool)
          /\ class.constant_pool[index].tag = "Methodref"
          /\ LET m == find_method_from_index(index, class)
                 meth == class.methods[m]
                 len == get_number_of_parameters(meth)
                 args == marshal(calloc(meth.code.max_locals), cur.operand_stack,
                                 sp, len - 1)
                 locals_queue == calloc_block(allocated)
                 operand_stack == calloc_block(allocated \cup {locals_queue})
             IN /\ len <= sp /\ len <= meth.code.max_locals
                /\ frames' = Append([frames EXCEPT ![Len(frames)] =
                                        [cur EXCEPT !.stack_count = args.stack_count,
                                                    !.locals_queue = locals_queue,
                                                    !.locals = [k \in DOMAIN cur.locals |->
                                                                   IF k < len THEN args.locals[k]
                                                                   ELSE cur.locals[k]]]],
                                    Activation(m, args.locals, operand_stack))
                /\ allocated' = allocated \cup {locals_queue, operand_stack}
                /\ UNCHANGED <<class, result, heap, out, status>>

(* case i_invokestatic up to the recursive call of execute() *)
case_invokestatic ==
    /\ Fetch(i_invokestatic, 2)
    /\ LET index == int16_t(code(cur.pc + 1), code(cur.pc + 2)) IN
          /\ index >= 1 /\ index <= Len(class.constant_pool)
          /\ class.constant_pool[index].tag = "Methodref"
          /\ LET m == find_method_from_index(index, class)
                 meth == class.methods[m]
                 len == get_number_of_parameters(meth)
                 args == marshal(calloc(meth.code.max_locals), cur.operand_stack,
                                 sp, len - 1)
                 locals_queue == calloc_block(allocated)
                 operand_stack == calloc_block(allocated \cup {locals_queue})
             IN /\ len <= sp /\ len <= meth.code.max_locals
                /\ frames' = Append([frames EXCEPT ![Len(frames)] =
                                        [cur EXCEPT !.stack_count = args.stack_count,
                                                    !.locals_queue = locals_queue]],
                                    Activation(m, args.locals, operand_stack))
                /\ allocated' = allocated \cup {locals_queue, operand_stack}
                /\ UNCHANGED <<class, result, heap, out, status>>

(* case i_invokestatic after execute() has returned res: free the locals,  *)
(* push res.value if res.has_value, pc += 3                                *)
(* a variant of the resumption that advances pc by 3 and drops the value *)
Resumed_without_push(f, res) == [f EXCEPT !.pc = @ + 3]

Resumed(f, res) ==
    IF res.has_value THEN Pushed(f, res.value, 3) ELSE [f EXCEPT !.pc = @ + 3]

invokestatic_resume ==
    /\ status = "running" /\ result.returned /\ frames # <<>>
    /\ \/ /\ allocated' = free(allocated, cur.locals_queue)
          /\ frames' = [frames EXCEPT ![Len(frames)] =
                           [Resumed(cur, result) EXCEPT !.locals_queue = 0]]
          /\ result' = NoResult
          /\ UNCHANGED <<class, heap, out, status>>
       \/ /\ result.has_value /\ ~CanPush
          /\ Die("trapped")

case_nop ==
    /\ Fetch(i_nop, 0)
    /\ Break([cur EXCEPT !.pc = @ + 1])

case_dup ==
    /\ Fetch(i_dup, 0) /\ sp >= 1
    /\ Push(stack(sp - 1), 1)

(* new_array: calloc(count + 1) with new_array[0] = count and the loop     *)
(* that zeroes new_array[1 .. count]                                       *)
(* a variant of the allocation that records the allocated length count + 1 *)
new_array_with_length(count) == [calloc(count + 1) EXCEPT ![0] = count + 1]

new_array(count) == [calloc(count + 1) EXCEPT ![0] = count]

(* assert(count + 1 > 0): count + 1 overflows for INT32_MAX; a build then  *)
(* fails the assert on the wrapped sum or traps.                           *)
case_newarray ==
    /\ Fetch(i_newarray, 0) /\ sp >= 1
    /\ LET count == stack(sp - 1) IN
          IF count = INT32_MAX THEN \E how \in {"aborted", "trapped"} : Die(how)
          ELSE IF ~(count + 1 > 0) THEN Die("aborted")
          ELSE /\ heap' = heap_add(heap, new_array(count))
               /\ frames' = [frames EXCEPT ![Len(frames)] =
                                [cur EXCEPT !.operand_stack[sp - 1] = heap_add_ref(heap),
                                            !.pc = @ + 2]]
               /\ UNCHANGED <<class, result, out, status, allocated>>

case_arraylength ==
    /\ Fetch(i_arraylength, 0) /\ sp >= 1
    /\ LET ref == stack(sp - 1) IN
          /\ heap_has(heap, ref)
          /\ Break([cur EXCEPT !.operand_stack[sp - 1] = heap_get(heap, ref)[0],
                               !.pc = @ + 1])

(* a variant of case i_areturn that leaves has_value false *)
areturn_without_value ==
    /\ Fetch(i_areturn, 0) /\ sp >= 1
    /\ Return([returned |-> TRUE, has_value |-> FALSE, value |-> stack(sp - 1)])

case_areturn ==
    /\ Fetch(i_areturn, 0) /\ sp >= 1
    /\ Return([returned |-> TRUE, has_value |-> TRUE, value |-> stack(sp - 1)])

(* arr[index + 1] lies inside the array heap_get(heap, ref) *)
InArray(h, ref, index) ==
    /\ heap_has(h, ref)
    /\ index >= -1 /\ index < INT32_MAX
    /\ index + 1 \in DOMAIN heap_get(h, ref)

(* the slot of the array that element `index` lives in *)
element_slot(index) == index + 1

(* a variant of case i_iaload that zeroes the element it has read *)
iaload_clearing ==
    /\ Fetch(i_iaload, 0) /\ sp >= 2
    /\ LET index == stack(sp - 1)
           ref == stack(sp - 2)
       IN /\ InArray(heap, ref, index)
          /\ heap' = [heap EXCEPT ![ref + 1][element_slot(index)] = 0]
          /\ frames' = [frames EXCEPT ![Len(frames)] =
                           Binary(cur, heap_get(heap, ref)[element_slot(index)])]
          /\ UNCHANGED <<class, result, out, status, allocated>>

case_iaload ==
    /\ Fetch(i_iaload, 0) /\ sp >= 2
    /\ LET index == stack(sp - 1)
           ref == stack(sp - 2)
       IN /\ InArray(heap, ref, index)
          /\ Break(Binary(cur, heap_get(heap, ref)[element_slot(index)]))

case_aload ==
    /\ Fetch(i_aload, 1) /\ InLocals(code(cur.pc + 1))
    /\ Push(cur.locals[code(cur.pc + 1)], 2)

case_aload_n ==
    /\ \E op \in i_aload_0 .. i_aload_3 : Fetch(op, 0)
    /\ InLocals(code(cur.pc) - i_aload_0)
    /\ Push(cur.locals[code(cur.pc) - i_aload_0], 1)

(* a variant of the store that writes arr[index] *)
array_store_at_index(h, ref, index, value) ==
    [h EXCEPT ![ref + 1][index] = value]

(* arr[index + 1] = value, in place in the array the heap owns *)
array_store(h, ref, index, value) ==
    [h EXCEPT ![ref + 1][element_slot(index)] = value]

case_iastore ==
    /\ Fetch(i_iastore, 0) /\ sp >= 3
    /\ LET value == stack(sp - 1)
           index == stack(sp - 2)
           ref == stack(sp - 3)
       IN /\ InArray(heap, ref, index)
          /\ heap' = array_store(heap, ref, index, value)
          /\ frames' = [frames EXCEPT ![Len(frames)] =
                           [cur EXCEPT !.stack_count = @ - 3, !.pc = @ + 1]]
          /\ UNCHANGED <<class, result, out, status, allocated>>

case_astore ==
    /\ Fetch(i_astore, 1) /\ sp >= 1 /\ InLocals(code(cur.pc + 1))
    /\ Break(Stored(cur, code(cur.pc + 1), 2))

case_astore_n ==
    /\ \E op \in i_astore_0 .. i_astore_3 : Fetch(op, 0)
    /\ sp >= 1 /\ InLocals(code(cur.pc) - i_astore_0)
    /\ Break(Stored(cur, code(cur.pc) - i_astore_0, 1))

(* the loop ends with pc >= code_length: "Return void" *)
(* the condition of the conditional branch `op` on the operand stack *)
branch_taken(op) ==
    CASE op = i_ifeq -> stack(sp - 1) = 0
      [] op = i_ifne -> stack(sp - 1) # 0
      [] op = i_iflt -> stack(sp - 1) < 0
      [] op = i_ifge -> stack(sp - 1) >= 0
      [] op = i_ifgt -> stack(sp - 1) > 0
      [] op = i_ifle -> stack(sp - 1) <= 0
      [] op = i_if_icmpeq -> stack(sp - 2) = stack(sp - 1)
      [] op = i_if_icmpne -> stack(sp - 2) # stack(sp - 1)
      [] op = i_if_icmplt -> stack(sp - 2) < stack(sp - 1)
      [] op = i_if_icmpge -> stack(sp - 2) >= stack(sp - 1)
      [] op = i_if_icmpgt -> stack(sp - 2) > stack(sp - 1)
      [] op = i_if_icmple -> stack(sp - 2) <= stack(sp - 1)

(* the number of bytes after the opcode that the case at pc reads: the     *)
(* cases of getstatic, invokevirtual and newarray skip their operand bytes *)
(* unread, and a conditional branch reads its displacement only if taken   *)
operand_reads ==
    LET op == code(cur.pc) IN
       IF op \in {i_bipush, i_ldc, i_iload, i_aload, i_istore, i_astore} THEN 1
       ELSE IF op \in {i_sipush, i_iinc, i_goto, i_invokestatic} THEN 2
       ELSE IF op \in (i_ifeq .. i_ifle) \cup (i_if_icmpeq .. i_if_icmple)
            THEN (IF sp >= (IF op <= i_ifle THEN 1 ELSE 2) /\ branch_taken(op)
                  THEN 2 ELSE 0)
       ELSE 0

(* code[pc + 1] or code[pc + 2] lies at code_length or beyond and the      *)
(* build stops the process at the read outside the array                   *)
read_past_code ==
    /\ InLoop
    /\ cur.pc + operand_reads >= method.code.code_length
    /\ Die("trapped")

(* the opcodes that have a case in the switch *)
Handled ==
    {i_nop, i_bipush, i_sipush, i_ldc, i_iload, i_aload, i_iaload, i_istore,
     i_astore, i_iastore, i_dup, i_iadd, i_isub, i_imul, i_idiv, i_irem,
     i_ineg, i_ishl, i_ishr, i_iushr, i_iand, i_ior, i_ixor, i_iinc, i_goto,
     i_ireturn, i_areturn, i_return, i_getstatic, i_invokevirtual,
     i_invokestatic, i_newarray, i_arraylength}
    \cup (i_iconst_m1 .. i_iconst_5) \cup (i_iload_0 .. i_iload_3)
    \cup (i_aload_0 .. i_aload_3) \cup (i_istore_0 .. i_istore_3)
    \cup (i_astore_0 .. i_astore_3) \cup (i_ifeq .. i_ifle)
    \cup (i_if_icmpeq .. i_if_icmple)

(* the switch has no default: for an opcode without a case nothing is      *)
(* executed, pc keeps its value, and the loop tests and dispatches again   *)
no_case ==
    /\ InLoop
    /\ code(cur.pc) \notin Handled
    /\ UNCHANGED vars

(* a variant of the return after the loop that does not free the operand  *)
(* stack                                                                   *)
fall_through_without_free ==
    /\ status = "running" /\ frames # <<>> /\ ~result.returned
    /\ ~(cur.pc >= 0 /\ cur.pc < method.code.code_length)
    /\ result' = [returned |-> TRUE, has_value |-> FALSE, value |-> 0]
    /\ frames' = SubSeq(frames, 1, Len(frames) - 1)
    /\ UNCHANGED <<class, heap, out, status, allocated>>

fall_through ==
    /\ status = "running" /\ frames # <<>> /\ ~result.returned
    /\ ~(cur.pc >= 0 /\ cur.pc < method.code.code_length)
    /\ Return([returned |-> TRUE, has_value |-> FALSE, value |-> 0])

----------------------------------------------------------------------------
(* a variant of the end of main without the assert on has_value *)
main_finish_unchecked ==
    /\ status = "running" /\ result.returned /\ frames = <<>>
    /\ status' = "exited"
    /\ UNCHANGED <<class, frames, result, heap, out, allocated>>

(* main(): execute(main_method, locals, class, heap) has returned;         *)
(* assert(!result.has_value), then the process ends with status 0.         *)
main_finish ==
    /\ status = "running" /\ result.returned /\ frames = <<>>
    /\ status' = IF result.has_value THEN "aborted" ELSE "exited"
    /\ UNCHANGED <<class, frames, result, heap, out, allocated>>

----------------------------------------------------------------------------
(* Class files.  The reader (read_class.h) hands execute() the constant    *)
(* pool and the methods; the classes below are the inputs of the model.    *)

Integer(v) == [tag |-> "Integer", bytes |-> v, method |-> 0]
Methodref(m) == [tag |-> "Methodref", bytes |-> 0, method |-> m]

Method(max_stack, max_locals, params, bytes) ==
    [code |-> [max_stack |-> max_stack, max_locals |-> max_locals,
               code_length |-> Len(bytes), code |-> bytes],
     parameters |-> params]

(* a method whose code array of Len(bytes) bytes is followed in memory by  *)
(* the bytes `after`                                                       *)
MethodInMemory(max_stack, max_locals, params, bytes, after) ==
    [code |-> [max_stack |-> max_stack, max_locals |-> max_locals,
               code_length |-> Len(bytes), code |-> bytes \o after],
     parameters |-> params]

Class(constant_pool, methods) ==
    [constant_pool |-> constant_pool, methods |-> methods, main |-> 1]

(* bounds of the inputs *)
MaxSmall == 2       \* small operands -MaxSmall .. MaxSmall beside the edge values
MaxFact == 3        \* fact(n) is run for n in 0 .. MaxFact
MaxLoop == 3        \* the summing loop runs 0 .. MaxLoop times
MaxArg == 2         \* the arguments of the three-parameter call, 1 .. MaxArg
MaxCount == 2       \* arrays of 0 .. MaxCount elements

(* the two displacement bytes of d, big-endian two's complement *)
hi(d) == (IF d < 0 THEN d + 65536 ELSE d) \div 256
lo(d) == (IF d < 0 THEN d + 65536 ELSE d) % 256

PRINTLN == <<i_invokevirtual, 0, 0>>
GETSTATIC == <<i_getstatic, 0, 0>>

EdgeVals == {INT32_MIN, INT32_MIN + 1, -7, 31, 32, 33, 46341, 65536, INT32_MAX}
ArithVals == EdgeVals \cup (-MaxSmall .. MaxSmall)
CompareVals == {INT32_MIN, INT32_MAX} \cup (-MaxSmall .. MaxSmall)

BinaryOps == {i_iadd, i_isub, i_imul, i_idiv, i_irem, i_ishl, i_ishr, i_iushr,
              i_iand, i_ior, i_ixor}

(* System.out.println(a op b) *)
ArithClass(op, a, b) ==
    Class(<<Integer(a), Integer(b)>>,
          <<Method(3, 1, 1,
               GETSTATIC \o <<i_ldc, 1, i_ldc, 2, op>> \o PRINTLN \o <<i_return>>)>>)

(* System.out.println(-a) *)
NegClass(a) ==
    Class(<<Integer(a)>>,
          <<Method(2, 1, 1, <<i_ldc, 1, i_ineg>> \o PRINTLN \o <<i_return>>)>>)

(* if (v op 0) println(1) else println(0), the branch going forward:       *)
(*   0 ldc 1   2 if<op> +8   5 iconst_0   6 print   9 return               *)
(*   10 iconst_1   11 print   14 return                                    *)
IfForwardClass(op, v) ==
    Class(<<Integer(v)>>,
          <<Method(1, 1, 1,
               <<i_ldc, 1, op, hi(8), lo(8), i_iconst_m1 + 1>> \o PRINTLN \o <<i_return,
                 i_iconst_m1 + 2>> \o PRINTLN \o <<i_return>>)>>)

(* the same with the branch going backward:                                *)
(*   0 goto +8   3 iconst_1   4 print   7 return                           *)
(*   8 ldc 1   10 if<op> -7   13 iconst_0   14 print   17 return           *)
IfBackwardClass(op, v) ==
    Class(<<Integer(v)>>,
          <<Method(1, 1, 1,
               <<i_goto, hi(8), lo(8), i_iconst_m1 + 2>> \o PRINTLN \o <<i_return,
                 i_ldc, 1, op, hi(-7), lo(-7), i_iconst_m1 + 1>> \o PRINTLN
                 \o <<i_return>>)>>)

(* if (a op b) println(1) else println(0), forward:                        *)
(*   0 ldc 1   2 ldc 2   4 if_icmp<op> +8   7 iconst_0   8 print           *)
(*   11 return   12 iconst_1   13 print   16 return                        *)
IfCmpForwardClass(op, a, b) ==
    Class(<<Integer(a), Integer(b)>>,
          <<Method(2, 1, 1,
               <<i_ldc, 1, i_ldc, 2, op, hi(8), lo(8), i_iconst_m1 + 1>> \o PRINTLN
                 \o <<i_return, i_iconst_m1 + 2>> \o PRINTLN \o <<i_return>>)>>)

(* and backward:                                                           *)
(*   0 goto +8   3 iconst_1   4 print   7 return                           *)
(*   8 ldc 1   10 ldc 2   12 if_icmp<op> -9   15 iconst_0   16 print       *)
(*   19 return                                                             *)
IfCmpBackwardClass(op, a, b) ==
    Class(<<Integer(a), Integer(b)>>,
          <<Method(2, 1, 1,
               <<i_goto, hi(8), lo(8), i_iconst_m1 + 2>> \o PRINTLN \o <<i_return,
                 i_ldc, 1, i_ldc, 2, op, hi(-9), lo(-9), i_iconst_m1 + 1>> \o PRINTLN
                 \o <<i_return>>)>>)

(* a branch over 257 nops, so that the high displacement byte is not 0:    *)
(*   0 iconst_0   1 <op> +260   4 .. 260 nop   261 iconst_5   262 print    *)
(*   265 return           (op is ifeq, taken, or ifne, not taken)          *)
FarClass(op) ==
    Class(<< >>,
          <<Method(2, 1, 1,
               <<i_iconst_m1 + 1, op, hi(260), lo(260)>> \o [k \in 1 .. 257 |-> i_nop]
                 \o <<i_iconst_5>> \o PRINTLN \o <<i_return>>)>>)

(* int s = 0; for (int i = 1; i <= n; i++) s += i; println(s):             *)
(*   0 iconst_0   1 istore_1   2 iconst_1   3 istore_2   4 iload_2         *)
(*   5 bipush n   7 if_icmpgt +13   10 iload_1   11 iload_2   12 iadd      *)
(*   13 istore_1   14 iinc 2 1   17 goto -13   20 getstatic   23 iload_1   *)
(*   24 print   27 return                                                  *)
LoopClass(n) ==
    Class(<< >>,
          <<Method(2, 3, 1,
               <<i_iconst_m1 + 1, i_istore_0 + 1, i_iconst_m1 + 2, i_istore_0 + 2,
                 i_iload_0 + 2, i_bipush, n, i_if_icmpgt, hi(13), lo(13),
                 i_iload_0 + 1, i_iload_0 + 2, i_iadd, i_istore_0 + 1,
                 i_iinc, 2, 1, i_goto, hi(-13), lo(-13)>> \o GETSTATIC
                 \o <<i_iload_0 + 1>> \o PRINTLN \o <<i_return>>)>>)

(* println(fact(n)); static int fact(int n) { return n == 0 ? 1 :          *)
(* n * fact(n - 1); }                                                      *)
(*   main: 0 getstatic   3 bipush n   5 invokestatic #1   8 print          *)
(*         11 return                                                       *)
(*   fact: 0 iload_0   1 ifne +5   4 iconst_1   5 ireturn   6 iload_0      *)
(*         7 iload_0   8 iconst_1   9 isub   10 invokestatic #1   13 imul  *)
(*         14 ireturn                                                      *)
FactClass(n) ==
    Class(<<Methodref(2)>>,
          <<Method(2, 1, 1,
               GETSTATIC \o <<i_bipush, n, i_invokestatic, 0, 1>> \o PRINTLN
                 \o <<i_return>>),
            Method(3, 1, 1,
               <<i_iload_0, i_ifne, hi(5), lo(5), i_iconst_m1 + 2, i_ireturn,
                 i_iload_0, i_iload_0, i_iconst_m1 + 2, i_isub,
                 i_invokestatic, 0, 1, i_imul, i_ireturn>>)>>)

(* A call with three arguments and a caller that keeps a value on its     *)
(* stack and one in a local across the call.  f prints its five locals,    *)
(* overwrites them, and ends by `how`: ireturn, return, or (i_nop) by      *)
(* running off the end of its code.                                        *)
(*   main: 0 bipush 9   2 istore_1   3 bipush 77   5 ldc 2   7 ldc 3       *)
(*         9 ldc 4   11 invokestatic #1   14 print (only after ireturn)    *)
(*         .. print   iload_1   print   return                             *)
(*   f:    0 iload_0   1 print   4 iload_1   5 print   8 iload_2           *)
(*         9 print   12 iload_3   13 print   16 iload 4   18 print         *)
(*         21 bipush 5   23 istore 4   25 iinc 0 -1   28 iload 4           *)
(*         30 astore_3   31 aload_3   32 astore 4   34 aload 4             *)
(*         36 istore_0   37 iload_0   38 <how>                             *)
CallClass(a, b, c, how) ==
    Class(<<Methodref(2), Integer(a), Integer(b), Integer(c)>>,
          <<Method(4, 2, 1,
               <<i_bipush, 9, i_istore_0 + 1, i_bipush, 77, i_ldc, 2, i_ldc, 3,
                 i_ldc, 4, i_invokestatic, 0, 1>>
                 \o (IF how = i_ireturn THEN PRINTLN ELSE << >>)
                 \o PRINTLN \o <<i_iload_0 + 1>> \o PRINTLN \o <<i_return>>),
            Method(2, 5, 3,
               <<i_iload_0>> \o PRINTLN \o <<i_iload_0 + 1>> \o PRINTLN
                 \o <<i_iload_0 + 2>> \o PRINTLN \o <<i_iload_3>> \o PRINTLN
                 \o <<i_iload, 4>> \o PRINTLN
                 \o <<i_bipush, 5, i_istore, 4, i_iinc, 0, 255, i_iload, 4,
                      i_astore_3, i_aload_3, i_astore, 4, i_aload, 4,
                      i_istore_0, i_iload_0>>
                 \o (IF how = i_nop THEN << >> ELSE <<how>>))>>)

(* Calls nested two deep with prints before, between and after:            *)
(*   main: 0 iconst_1   1 print   4 invokestatic #1   7 iconst_4           *)
(*         8 print   11 return                                             *)
(*   g:    0 iconst_2   1 print   4 bipush x   6 invokestatic #2           *)
(*         9 print   12 return                                             *)
(*   h:    0 iload_0   1 iconst_1   2 iadd   3 ireturn                     *)
NestedClass(x) ==
    Class(<<Methodref(2), Methodref(3)>>,
          <<Method(1, 1, 1,
               <<i_iconst_m1 + 2>> \o PRINTLN \o <<i_invokestatic, 0, 1, i_iconst_5 - 1>>
                 \o PRINTLN \o <<i_return>>),
            Method(1, 0, 0,
               <<i_iconst_m1 + 3>> \o PRINTLN \o <<i_bipush, x, i_invokestatic, 0, 2>>
                 \o PRINTLN \o <<i_return>>),
            Method(2, 1, 1, <<i_iload_0, i_iconst_m1 + 2, i_iadd, i_ireturn>>)>>)

(* int[] p = new int[count]; int[] q = new int[1]; p[i] = v; q[0] = 5;     *)
(* println(p[j]); println(p.length); println(q.length):                    *)
(*   0 bipush count   2 newarray atype   4 astore_1   5 iconst_1           *)
(*   6 newarray atype   8 astore_2   9 aload_1   10 bipush i   12 ldc 1    *)
(*   14 iastore   15 aload_2   16 iconst_0   17 iconst_5   18 iastore      *)
(*   19 aload_1   20 bipush j   22 iaload   23 print   26 aload_1          *)
(*   27 arraylength   28 print   31 aload_2   32 arraylength   33 print    *)
(*   36 return                                                             *)
ArrayClass(count, atype, i, v, j) ==
    Class(<<Integer(v)>>,
          <<Method(3, 3, 1,
               <<i_bipush, count, i_newarray, atype, i_astore_0 + 1,
                 i_iconst_m1 + 2, i_newarray, atype, i_astore_0 + 2,
                 i_aload_0 + 1, i_bipush, lo(i), i_ldc, 1, i_iastore,
                 i_aload_0 + 2, i_iconst_m1 + 1, i_iconst_5, i_iastore,
                 i_aload_0 + 1, i_bipush, j, i_iaload>> \o PRINTLN
                 \o <<i_aload_0 + 1, i_arraylength>> \o PRINTLN
                 \o <<i_aload_0 + 2, i_arraylength>> \o PRINTLN \o <<i_return>>)>>)

(* println(new int[count].length), also for count = 0 and count < 0:       *)
(*   0 ldc 1   2 newarray 10   4 arraylength   5 print   8 return          *)
LengthClass(count) ==
    Class(<<Integer(count)>>,
          <<Method(1, 1, 1,
               <<i_ldc, 1, i_newarray, 10, i_arraylength>> \o PRINTLN
                 \o <<i_return>>)>>)

(* int[] a = make(); println(a[0]); println(a.length);                     *)
(* static int[] make() { int[] r = new int[3]; r[0] = 42; return r; }      *)
(*   main: 0 invokestatic #1   3 astore 1   5 aload 1   7 iconst_0         *)
(*         8 iaload   9 print   12 aload_1   13 arraylength   14 print     *)
(*         17 return                                                       *)
(*   make: 0 iconst_3   1 newarray 10   3 dup   4 iconst_0   5 bipush 42   *)
(*         7 iastore   8 areturn                                           *)
MakeClass ==
    Class(<<Methodref(2)>>,
          <<Method(2, 2, 1,
               <<i_invokestatic, 0, 1, i_astore, 1, i_aload, 1, i_iconst_m1 + 1,
                 i_iaload>> \o PRINTLN \o <<i_aload_0 + 1, i_arraylength>>
                 \o PRINTLN \o <<i_return>>),
            Method(4, 0, 0,
               <<i_iconst_m1 + 4, i_newarray, 10, i_dup, i_iconst_m1 + 1,
                 i_bipush, 42, i_iastore, i_areturn>>)>>)

(* println of each literal form:                                           *)
(*   0 nop   1 <iconst>   2 print   5 bipush b2   7 print                  *)
(*   10 sipush b1 b2   13 print   16 return                                *)
LiteralClass(op, b1, b2) ==
    Class(<< >>,
          <<Method(1, 1, 1,
               <<i_nop, op>> \o PRINTLN \o <<i_bipush, b2>> \o PRINTLN
                 \o <<i_sipush, b1, b2>> \o PRINTLN \o <<i_return>>)>>)

(* a main method that ends with ireturn: 0 iconst_1   1 ireturn *)
ValueMainClass == Class(<< >>, <<Method(1, 1, 1, <<i_iconst_m1 + 2, i_ireturn>>)>>)

(* println(1); println(f(b)); static int f(int b) { return 1 op b; }       *)
(*   main: 0 iconst_1   1 print   4 bipush b   6 invokestatic #1           *)
(*         9 print   12 return                                             *)
(*   f:    0 iconst_1   1 iload_0   2 <op>   3 ireturn                     *)
FaultInCalleeClass(op, b) ==
    Class(<<Methodref(2)>>,
          <<Method(1, 1, 1,
               <<i_iconst_m1 + 2>> \o PRINTLN \o <<i_bipush, b, i_invokestatic, 0, 1>>
                 \o PRINTLN \o <<i_return>>),
            Method(2, 1, 1, <<i_iconst_m1 + 2, i_iload_0, op, i_ireturn>>)>>)

(* opcode bytes the switch has no case for: aconst_null, pop, and 0xFF *)
UnhandledOpcodes == {1, 87, 255}

(* println(1); <op>; println(2):                                           *)
(*   0 iconst_1   1 print   4 <op>   5 iconst_2   6 print   9 return       *)
UnhandledClass(op) ==
    Class(<< >>,
          <<Method(1, 1, 1,
               <<i_iconst_m1 + 2>> \o PRINTLN \o <<op, i_iconst_m1 + 3>> \o PRINTLN
                 \o <<i_return>>)>>)

(* a main method that prints its two locals without storing to them and   *)
(* ends by `how` (i_nop: by running off the end of its code):              *)
(*   0 iload_0   1 print   4 aload_1   5 print   8 iconst_1   9 <how>      *)
MainLocalsClass(how) ==
    Class(<< >>,
          <<Method(1, 2, 1,
               <<i_iload_0>> \o PRINTLN \o <<i_aload_0 + 1>> \o PRINTLN
                 \o <<i_iconst_m1 + 2>>
                 \o (IF how = i_nop THEN << >> ELSE <<how>>))>>)

(* println(constant #b) for a constant pool of 255 integers, entry k       *)
(* holding 1000 + k:   0 ldc b   2 print   5 return                        *)
BigPoolClass(b) ==
    Class([k \in 1 .. 255 |-> Integer(1000 + k)],
          <<Method(1, 1, 1, <<i_ldc, b>> \o PRINTLN \o <<i_return>>)>>)

(* a main method that declares max_stack = 1 and pushes a second value:    *)
(*   0 iconst_2   1 <push>   .. print   print   return                     *)
OverflowClass(push) ==
    Class(<< >>,
          <<Method(1, 1, 1,
               <<i_iconst_m1 + 3>> \o push \o PRINTLN \o PRINTLN \o <<i_return>>)>>)

(* a branch whose target lies outside the code of its method (13 bytes):   *)
(*   0 iconst_1   1 print   4 iconst_0   5 <op> d   8 iconst_2   9 print   *)
(*   12 return                                                             *)
BranchOutClass(op, d) ==
    Class(<< >>,
          <<Method(1, 1, 1,
               <<i_iconst_m1 + 2>> \o PRINTLN \o <<i_iconst_m1 + 1, op, hi(d), lo(d),
                 i_iconst_m1 + 3>> \o PRINTLN \o <<i_return>>)>>)

(* displacements from address 5 to 13 = code_length, beyond it, to -1 and  *)
(* below it                                                                *)
OutsideDisplacements == {8, 100, -6, -100}

(* a main method whose code ends inside an instruction:                    *)
(*   0 iconst_1   1 print   4 <tail>                                       *)
TruncatedClass(tail, after) ==
    Class(<< >>,
          <<MethodInMemory(1, 1, 1, <<i_iconst_m1 + 2>> \o PRINTLN \o tail, after)>>)

(* instructions cut off after the opcode or after the first operand byte *)
Tails == {<<i_bipush>>, <<i_sipush>>, <<i_sipush, 1>>, <<i_nop, i_iload>>}

(* what the two bytes behind the code array may hold *)
StrayBytes == {<<0, 0>>, <<255, 255>>}

(* int[] a = new int[2]; int[] r = share(a, v); println(a[1]);             *)
(* println(r[0]); println(r.length);                                       *)
(* static int[] share(int[] a, int v) { a[1] = v; int[] r = new int[3];    *)
(* r[0] = 42; return r; }                                                  *)
(*   main:  0 iconst_2   1 newarray 10   3 astore_1   4 aload_1            *)
(*          5 bipush v   7 invokestatic #1   10 astore_2   11 aload_1      *)
(*          12 iconst_1   13 iaload   14 print   17 aload_2   18 iconst_0  *)
(*          19 iaload   20 print   23 aload_2   24 arraylength   25 print  *)
(*          28 return                                                      *)
(*   share: 0 aload_0   1 iconst_1   2 iload_1   3 iastore   4 iconst_3    *)
(*          5 newarray 10   7 dup   8 iconst_0   9 bipush 42   11 iastore  *)
(*          12 areturn                                                     *)
ShareClass(v) ==
    Class(<<Methodref(2)>>,
          <<Method(2, 3, 1,
               <<i_iconst_m1 + 3, i_newarray, 10, i_astore_0 + 1, i_aload_0 + 1,
                 i_bipush, v, i_invokestatic, 0, 1, i_astore_0 + 2,
                 i_aload_0 + 1, i_iconst_m1 + 2, i_iaload>> \o PRINTLN
                 \o <<i_aload_0 + 2, i_iconst_m1 + 1, i_iaload>> \o PRINTLN
                 \o <<i_aload_0 + 2, i_arraylength>> \o PRINTLN \o <<i_return>>),
            Method(4, 2, 2,
               <<i_aload_0, i_iconst_m1 + 2, i_iload_0 + 1, i_iastore,
                 i_iconst_m1 + 4, i_newarray, 10, i_dup, i_iconst_m1 + 1,
                 i_bipush, 42, i_iastore, i_areturn>>)>>)

ImmediateBytes == {0, 1, 127, 128, 255}

Classes ==
    {ArithClass(op, a, b) : op \in BinaryOps, a \in ArithVals, b \in ArithVals}
    \cup {NegClass(a) : a \in ArithVals}
    \cup {IfForwardClass(op, v) : op \in i_ifeq .. i_ifle, v \in CompareVals}
    \cup {IfBackwardClass(op, v) : op \in i_ifeq .. i_ifle, v \in CompareVals}
    \cup {IfCmpForwardClass(op, a, b) :
             op \in i_if_icmpeq .. i_if_icmple, a \in CompareVals, b \in CompareVals}
    \cup {IfCmpBackwardClass(op, a, b) :
             op \in i_if_icmpeq .. i_if_icmple, a \in CompareVals, b \in CompareVals}
    \cup {FarClass(op) : op \in {i_ifeq, i_ifne, i_goto}}
    \cup {LoopClass(n) : n \in 0 .. MaxLoop}
    \cup {FactClass(n) : n \in 0 .. MaxFact}
    \cup {CallClass(a, b, c, how) :
             a \in 1 .. MaxArg, b \in 1 .. MaxArg, c \in 1 .. MaxArg,
             how \in {i_ireturn, i_return, i_nop}}
    \cup {NestedClass(x) : x \in 0 .. MaxSmall}
    \cup UNION {{ArrayClass(count, atype, i, v, j) :
                     atype \in {0, 10}, i \in -1 .. count - 1,
                     v \in {INT32_MIN, -1, 7}, j \in 0 .. count - 1} :
                 count \in 1 .. MaxCount}
    \cup {LengthClass(count) : count \in -MaxSmall .. MaxCount}
    \cup {LengthClass(INT32_MAX)}
    \cup {MakeClass, ValueMainClass}
    \cup {ShareClass(v) : v \in {7, 255}}
    \cup {TruncatedClass(tail, after) : tail \in Tails, after \in StrayBytes}
    \cup {BranchOutClass(op, d) : op \in {i_ifeq, i_goto}, d \in OutsideDisplacements}
    \cup {OverflowClass(push) : push \in {<<i_dup>>, <<i_bipush, 7>>, <<i_iload_0>>}}
    \cup {BigPoolClass(b) : b \in ImmediateBytes \ {0}}
    \cup {MainLocalsClass(how) : how \in {i_ireturn, i_areturn, i_return, i_nop}}
    \cup {UnhandledClass(op) : op \in UnhandledOpcodes}
    \cup {FaultInCalleeClass(op, b) :
             op \in {i_idiv, i_irem, i_ishl, i_ishr, i_iushr}, b \in {0, 1, 255}}
    \cup {LiteralClass(op, b1, b2) :
             op \in i_iconst_m1 .. i_iconst_5, b1 \in ImmediateBytes,
             b2 \in ImmediateBytes}

----------------------------------------------------------------------------
(* main(): the class is parsed, the heap is empty (heap_init), the locals  *)
(* of main are max_locals zeros (memset), and execute(main_method, ...)    *)
(* has been entered.                                                       *)
Init ==
    /\ class \in Classes
    /\ allocated = {calloc_block({})}
    /\ frames = <<Activation(find_method_main(class),
                             calloc(class.methods[find_method_main(class)].code.max_locals),
                             calloc_block({}))>>
    /\ result = NoResult
    /\ heap = << >>
    /\ out = << >>
    /\ status = "running"

Next ==
    \/ case_bipush \/ case_iadd \/ case_return \/ case_getstatic
    \/ case_invokevirtual \/ case_iconst \/ case_sipush \/ case_isub
    \/ case_imul \/ case_idiv \/ case_irem \/ case_ineg
    \/ case_ishl \/ case_ishr \/ case_iushr
    \/ case_iand \/ case_ior \/ case_ixor
    \/ case_iload \/ case_iload_n \/ case_istore \/ case_istore_n
    \/ case_iinc \/ case_ldc
    \/ case_ifeq \/ case_ifne \/ case_iflt \/ case_ifge \/ case_ifgt \/ case_ifle
    \/ case_if_icmpeq \/ case_if_icmpne \/ case_if_icmplt
    \/ case_if_icmpge \/ case_if_icmpgt \/ case_if_icmple
    \/ case_goto \/ case_ireturn
    \/ case_invokestatic \/ invokestatic_resume
    \/ case_nop \/ case_dup \/ case_newarray \/ case_arraylength
    \/ case_areturn \/ case_iaload \/ case_aload \/ case_aload_n
    \/ case_iastore \/ case_astore \/ case_astore_n
    \/ no_case
    \/ read_past_code
    \/ fall_through
    \/ main_finish

Spec == Init /\ [][Next]_vars

(* the interpreter is one sequential process that keeps running: a step    *)
(* that changes the state is taken whenever one is possible                *)
FairSpec == Spec /\ WF_vars(Next)

----------------------------------------------------------------------------
(* Properties.  A step is read off the state it starts in: the opcode at   *)
(* the running activation's pc is the instruction the step executes.       *)

(* the dispatch loop is about to execute opcode `op` *)
AtOp(op) == InLoop /\ code(cur.pc) = op

(* execute() has returned and the caller has not yet taken the result *)
Returned == status = "running" /\ result.returned

(* the running activation after the step *)
curAfter == frames'[Len(frames')]

(* the step stays in the running activation and changes, of its frame,    *)
(* at most pc, stack_count and the operand stack                           *)
SameActivation ==
    /\ Len(frames') = Len(frames)
    /\ curAfter.method = cur.method

(* C1: the lines on standard output are the values popped by the executed  *)
(* invokevirtual instructions, in execution order over all activations:    *)
(* output starts empty, a step at invokevirtual appends the top of stack   *)
(* as the last line, pops that one value and advances pc by 3, and a step  *)
(* at any other instruction, or a call, return or resumption, leaves the   *)
(* output as it is.                                                        *)
C1_PrintsArePoppedValues ==
    /\ out = << >>
    /\ [][IF AtOp(i_invokevirtual)
          THEN /\ out' = Append(out, stack(sp - 1))
               /\ SameActivation
               /\ curAfter.stack_count = sp - 1
               /\ curAfter.pc = cur.pc + 3
               /\ curAfter.locals = cur.locals
          ELSE out' = out]_vars

(* C1 witness: a callee has printed after its caller did *)
C1_Witness ==
    /\ Len(frames) = 2
    /\ Len(out) = 2
    /\ class = NestedClass(1)
    /\ out = <<1, 2>>

(* an activation ends in this step *)
ActivationEnds == ~result.returned /\ result'.returned

(* the loop condition fails: pc has reached (or passed) code_length *)
OffTheEnd ==
    /\ status = "running" /\ frames # << >> /\ ~result.returned
    /\ ~(cur.pc >= 0 /\ cur.pc < method.code.code_length)

(* C2: an activation that ends does so at ireturn, areturn, return or off  *)
(* the end of the code; it returns has_value = TRUE with the top of the    *)
(* operand stack exactly at ireturn and areturn, has_value = FALSE at      *)
(* return and off the end; and a step at one of the four ends it.          *)
C2_ReturnValue ==
    [][/\ ActivationEnds =>
            /\ AtOp(i_ireturn) \/ AtOp(i_areturn) \/ AtOp(i_return) \/ OffTheEnd
            /\ result'.has_value = (AtOp(i_ireturn) \/ AtOp(i_areturn))
            /\ result'.has_value => result'.value = stack(sp - 1)
            /\ frames' = SubSeq(frames, 1, Len(frames) - 1)
       /\ (AtOp(i_ireturn) \/ AtOp(i_areturn) \/ AtOp(i_return) \/ OffTheEnd)
            => ActivationEnds]_vars

(* C2 witness: a callee has returned a value that is not the 0 of an       *)
(* empty result                                                            *)
C2_Witness ==
    /\ Returned /\ result.has_value /\ result.value = 6
    /\ Len(frames) = 1
    /\ class = FactClass(3)

(* C3: the activation that invokestatic starts for a method with n         *)
(* parameters has locals[i - 1] = the i-th pushed argument, which is the   *)
(* caller's operand_stack[sp - n + i - 1], for i in 1 .. n, and 0 in every *)
(* local from n to max_locals - 1.                                         *)
C3_ArgumentsInOrder ==
    [][AtOp(i_invokestatic) =>
          /\ Len(frames') = Len(frames) + 1
          /\ LET callee == class.methods[curAfter.method]
                 n == callee.parameters
             IN /\ curAfter.pc = 0
                /\ DOMAIN curAfter.locals = 0 .. callee.code.max_locals - 1
                /\ \A i \in 1 .. n : curAfter.locals[i - 1] = stack(sp - n + i - 1)
                /\ \A k \in n .. callee.code.max_locals - 1 : curAfter.locals[k] = 0]_vars

(* C3 witness: a three-parameter activation has just started with          *)
(* arguments that differ, and has locals beyond its parameters             *)
C3_Witness ==
    /\ Len(frames) = 2
    /\ cur.pc = 0
    /\ method.parameters = 3
    /\ method.code.max_locals = 5
    /\ cur.locals[0] = 1 /\ cur.locals[1] = 2 /\ cur.locals[2] = 1

(* C4: invokestatic of a method with n parameters takes n entries off the  *)
(* caller's stack when it calls; nothing touches the caller's frame while  *)
(* the callee runs and returns, and its pc stays on the invokestatic; when *)
(* the caller resumes, its sp grows by 1 and the returned value is the new *)
(* top if a value was returned, by 0 if none was, and its pc advances by 3 *)
C4_CallStackEffect ==
    [][/\ AtOp(i_invokestatic) =>
            /\ Len(frames') = Len(frames) + 1
            /\ LET n == class.methods[curAfter.method].parameters
                   caller == frames'[Len(frames)]
               IN /\ caller.stack_count = sp - n
                  /\ caller.pc = cur.pc
                  /\ caller.locals = cur.locals
       /\ (Returned /\ frames # << >>) =>
            /\ SameActivation
            /\ ~result'.returned
            /\ curAfter.stack_count = sp + (IF result.has_value THEN 1 ELSE 0)
            /\ result.has_value => curAfter.operand_stack[sp] = result.value
            /\ curAfter.pc = cur.pc + 3
            /\ curAfter.locals = cur.locals
       /\ \A k \in 1 .. Len(frames) - 1 :
            k \in DOMAIN frames' => frames'[k] = frames[k]
       /\ ActivationEnds /\ Len(frames) > 1 => frames'[Len(frames')] = frames[Len(frames')]
       /\ \A k \in 1 .. Len(frames') - 1 :
            class.methods[frames'[k].method].code.code[frames'[k].pc + 1] = i_invokestatic
      ]_vars

(* C4 witness: main has resumed after fact(3) returned 6, with the value   *)
(* on its stack and its pc past the invokestatic at 5                      *)
C4_Witness ==
    /\ class = FactClass(3)
    /\ status = "running" /\ ~result.returned
    /\ Len(frames) = 1
    /\ cur.pc = 8 /\ sp = 1 /\ stack(0) = 6

(* the number of elements of an array as allocated: its slots after slot 0 *)
ElementCount(arr) == Cardinality(DOMAIN arr) - 1

(* ref names an array of the heap and index one of its elements *)
ElementOf(ref, index) ==
    /\ ref >= 0 /\ ref < Len(heap)
    /\ index >= 0 /\ index < ElementCount(heap[ref + 1])

(* C5: iastore(ref, i, v) with 0 <= i < count makes element i of ref hold  *)
(* v; a step changes element i of ref only if it is an iastore to that ref *)
(* and index, and never the shape of an array or the arrays of the heap;   *)
(* iaload(ref, i) with 0 <= i < count pushes what element i of ref holds;  *)
(* and newarray makes a new array, under a reference no array has, whose   *)
(* count elements are all 0.  Together: iaload pushes the last v stored to *)
(* (ref, i), or 0 if nothing was stored there since newarray.              *)
C5_ArrayRoundTrip ==
    [][/\ (AtOp(i_iastore) /\ sp >= 3 /\ ElementOf(stack(sp - 3), stack(sp - 2))) =>
            /\ heap'[stack(sp - 3) + 1][stack(sp - 2) + 1] = stack(sp - 1)
            /\ SameActivation
            /\ curAfter.stack_count = sp - 3
            /\ status' = "running"
       /\ Len(heap') >= Len(heap)
       /\ \A r \in 1 .. Len(heap) :
            /\ DOMAIN heap'[r] = DOMAIN heap[r]
            /\ \A s \in 1 .. ElementCount(heap[r]) :
                 heap'[r][s] # heap[r][s] =>
                     /\ AtOp(i_iastore)
                     /\ stack(sp - 3) = r - 1
                     /\ stack(sp - 2) = s - 1
       /\ (AtOp(i_iaload) /\ sp >= 2 /\ ElementOf(stack(sp - 2), stack(sp - 1))) =>
            /\ SameActivation
            /\ curAfter.stack_count = sp - 1
            /\ curAfter.operand_stack[sp - 2] = heap[stack(sp - 2) + 1][stack(sp - 1) + 1]
            /\ heap' = heap
            /\ status' = "running"
       /\ (AtOp(i_newarray) /\ heap' # heap) =>
            /\ Len(heap') = Len(heap) + 1
            /\ ElementCount(heap'[Len(heap')]) = stack(sp - 1)
            /\ \A s \in 1 .. stack(sp - 1) : heap'[Len(heap')][s] = 0
            /\ curAfter.operand_stack[sp - 1] = Len(heap') - 1
      ]_vars

(* C5 witness: a program stored 7 to element 1 of a two-element array,     *)
(* loaded it back and printed 7                                            *)
C5_Witness ==
    /\ class = ArrayClass(2, 10, 1, 7, 1)
    /\ out = <<7>>
    /\ heap[1] = [i \in 0 .. 2 |-> IF i = 0 THEN 2 ELSE IF i = 2 THEN 7 ELSE 0]

(* C6: a newarray that pops a count c >= 0 and allocates appends an array  *)
(* whose slot 0 holds c, replaces the top of the stack by its reference    *)
(* (sp unchanged) and advances pc by 2 whatever the atype byte is; a step  *)
(* changes slot 0 of an array only if it is an iastore to that array with  *)
(* an index outside 0 .. count - 1; and arraylength replaces the top of    *)
(* the stack by slot 0 of the array it names (sp unchanged, pc + 1).       *)
C6_ArrayLength ==
    [][/\ (AtOp(i_newarray) /\ sp >= 1 /\ stack(sp - 1) >= 0 /\ status' = "running") =>
            /\ Len(heap') = Len(heap) + 1
            /\ heap'[Len(heap')][0] = stack(sp - 1)
            /\ SameActivation
            /\ curAfter.operand_stack[sp - 1] = Len(heap') - 1
            /\ curAfter.stack_count = sp
            /\ curAfter.pc = cur.pc + 2
       /\ (AtOp(i_newarray) /\ sp >= 1 /\ stack(sp - 1) >= 0 /\ stack(sp - 1) < INT32_MAX)
            => status' = "running"
       /\ \A r \in 1 .. Len(heap) :
            heap'[r][0] # heap[r][0] =>
                /\ AtOp(i_iastore)
                /\ stack(sp - 3) = r - 1
                /\ ~ElementOf(stack(sp - 3), stack(sp - 2))
       /\ (AtOp(i_arraylength) /\ sp >= 1
             /\ stack(sp - 1) >= 0 /\ stack(sp - 1) < Len(heap)) =>
            /\ SameActivation
            /\ curAfter.operand_stack[sp - 1] = heap[stack(sp - 1) + 1][0]
            /\ curAfter.stack_count = sp
            /\ curAfter.pc = cur.pc + 1
            /\ heap' = heap
      ]_vars

(* C6 witness: after newarray of 2 elements with atype 0 and a store to    *)
(* element 1, arraylength gave 2, which the program printed                *)
C6_Witness ==
    /\ class = ArrayClass(2, 0, 1, 7, 0)
    /\ out = <<0, 2>>

(* the big-endian signed 16-bit displacement of the bytes b1 b2 *)
Displacement(b1, b2) ==
    IF b1 >= 128 THEN (b1 - 256) * 256 + b2 ELSE b1 * 256 + b2

UnaryBranches == {i_ifeq, i_ifne, i_iflt, i_ifge, i_ifgt, i_ifle}

BinaryBranches ==
    {i_if_icmpeq, i_if_icmpne, i_if_icmplt, i_if_icmpge, i_if_icmpgt, i_if_icmple}

(* the number of operands a branch pops *)
BranchPops(op) ==
    IF op \in UnaryBranches THEN 1 ELSE IF op \in BinaryBranches THEN 2 ELSE 0

(* the condition of branch `op` on the second-from-top a and the top b *)
BranchHolds(op, a, b) ==
    CASE op = i_ifeq -> b = 0
      [] op = i_ifne -> b # 0
      [] op = i_iflt -> b < 0
      [] op = i_ifge -> b >= 0
      [] op = i_ifgt -> b > 0
      [] op = i_ifle -> b <= 0
      [] op = i_if_icmpeq -> a = b
      [] op = i_if_icmpne -> a # b
      [] op = i_if_icmplt -> a < b
      [] op = i_if_icmpge -> a >= b
      [] op = i_if_icmpgt -> a > b
      [] op = i_if_icmple -> a <= b
      [] op = i_goto -> TRUE

(* C7: a step at one of the twelve conditional branches or at goto, at     *)
(* address p with displacement d, sets pc to p + d if the condition holds  *)
(* (the unary forms compare the top with 0, the binary forms the second    *)
(* from top a with the top b, goto always) and to p + 3 otherwise, and     *)
(* lowers sp by 1, 2 or 0 in both cases; it changes nothing else.          *)
C7_Branches ==
    [][\A op \in UnaryBranches \cup BinaryBranches \cup {i_goto} :
          (AtOp(op) /\ sp >= BranchPops(op)) =>
             LET d == Displacement(code(cur.pc + 1), code(cur.pc + 2))
                 holds == BranchHolds(op, IF op \in BinaryBranches THEN stack(sp - 2) ELSE 0,
                                      IF op = i_goto THEN 0 ELSE stack(sp - 1))
             IN /\ SameActivation
                /\ curAfter.pc = IF holds THEN cur.pc + d ELSE cur.pc + 3
                /\ curAfter.stack_count = sp - BranchPops(op)
                /\ curAfter.locals = cur.locals
                /\ curAfter.operand_stack = cur.operand_stack
                /\ UNCHANGED <<class, result, heap, out, status>>]_vars

(* C7 witness: if_icmplt at address 12 with a = 1 below b = 2 has branched *)
(* backwards by 9 and popped both                                          *)
C7_Witness ==
    /\ class = IfCmpBackwardClass(i_if_icmplt, 1, 2)
    /\ Len(frames) = 1
    /\ cur.pc = 3 /\ sp = 0
    /\ out = << >>

(* C8: a step at ishl, ishr or iushr with a shift amount b >= 0 on top and *)
(* a below it does not end the process, replaces the two by the shift of a *)
(* by b mod 32 (left and wrapped to 32 bits, arithmetic right, logical     *)
(* right on the unsigned pattern) and advances pc by 1.                    *)
C8_ShiftsUseLowFiveBits ==
    [][\A op \in {i_ishl, i_ishr, i_iushr} :
          (AtOp(op) /\ sp >= 2 /\ stack(sp - 1) >= 0) =>
             LET a == stack(sp - 2)
                 b == stack(sp - 1)
             IN /\ status' = "running"
                /\ SameActivation
                /\ curAfter.operand_stack[sp - 2] =
                      (CASE op = i_ishl -> WrapShl(a, b % 32)
                         [] op = i_ishr -> ArithShr(a, b % 32)
                         [] op = i_iushr -> LogicShr(a, b % 32))
                /\ curAfter.stack_count = sp - 1
                /\ curAfter.pc = cur.pc + 1]_vars

(* C9: a step at iadd, isub or imul with b on top and a below it does not  *)
(* end the process, replaces the two by a + b, a - b or a * b reduced      *)
(* modulo 2^32 to a signed word, and advances pc by 1; a step at ineg      *)
(* replaces the top v by -v reduced the same way, sp unchanged, pc + 1.    *)
C9_ArithmeticWraps ==
    [][/\ \A op \in {i_iadd, i_isub, i_imul} :
            (AtOp(op) /\ sp >= 2) =>
               LET a == stack(sp - 2)
                   b == stack(sp - 1)
               IN /\ status' = "running"
                  /\ SameActivation
                  /\ curAfter.operand_stack[sp - 2] =
                        (CASE op = i_iadd -> WrapAdd(a, b)
                           [] op = i_isub -> WrapSub(a, b)
                           [] op = i_imul -> WrapMul(a, b))
                  /\ curAfter.stack_count = sp - 1
                  /\ curAfter.pc = cur.pc + 1
       /\ (AtOp(i_ineg) /\ sp >= 1) =>
            /\ status' = "running"
            /\ SameActivation
            /\ curAfter.operand_stack[sp - 1] = WrapNeg(stack(sp - 1))
            /\ curAfter.stack_count = sp
            /\ curAfter.pc = cur.pc + 1]_vars

(* C10: a step at idiv or irem with a divisor b # 0 on top and a below it  *)
(* does not end the process and replaces the two by the quotient truncated *)
(* toward zero as a 32-bit word (-2^31 for a = -2^31, b = -1), or by the   *)
(* remainder r = a - b * quotient (0 for a = -2^31, b = -1), which has the *)
(* sign of a or is 0.                                                      *)
C10_DivisionNeverFatal ==
    [][\A op \in {i_idiv, i_irem} :
          (AtOp(op) /\ sp >= 2 /\ stack(sp - 1) # 0) =>
             LET a == stack(sp - 2)
                 b == stack(sp - 1)
                 edge == a = INT32_MIN /\ b = -1
                 q == IF edge THEN INT32_MIN ELSE TruncDiv(a, b)
                 r == IF edge THEN 0 ELSE a - b * TruncDiv(a, b)
             IN /\ status' = "running"
                /\ SameActivation
                /\ curAfter.operand_stack[sp - 2] = (IF op = i_idiv THEN q ELSE r)
                /\ op = i_irem => (r = 0 \/ (r < 0) = (a < 0))
                /\ curAfter.stack_count = sp - 1
                /\ curAfter.pc = cur.pc + 1]_vars

(* the instruction about to execute is an idiv or irem with divisor 0 or  *)
(* a shift with a negative amount                                          *)
AtFault ==
    \/ (AtOp(i_idiv) \/ AtOp(i_irem)) /\ sp >= 2 /\ stack(sp - 1) = 0
    \/ (AtOp(i_ishl) \/ AtOp(i_ishr) \/ AtOp(i_iushr)) /\ sp >= 2 /\ stack(sp - 1) < 0

(* C11: a step at idiv or irem with divisor 0, or at a shift with a        *)
(* negative amount, ends the process and changes no frame, no result, no   *)
(* array and no output; and once the process has ended no step follows:    *)
(* no instruction of any activation, no output, no return to a caller.     *)
C11_FaultsAreFatal ==
    [][/\ AtFault =>
            /\ status' = "aborted"
            /\ UNCHANGED <<class, frames, result, heap, out>>
       /\ status # "running" => UNCHANGED vars]_vars

(* C11 witness: the process has ended inside a callee that divided by 0,   *)
(* after main printed 1, with main still waiting at its invokestatic       *)
C11_Witness ==
    /\ class = FaultInCalleeClass(i_idiv, 0)
    /\ status = "aborted"
    /\ Len(frames) = 2
    /\ cur.pc = 2 /\ sp = 2
    /\ out = <<1>>

(* the dispatch loop is about to read an opcode that has no case *)
AtUnhandled == InLoop /\ code(cur.pc) \notin Handled

(* C12: when the dispatch loop reads an opcode byte without a handler the  *)
(* interpreter stops with a fatal error: from such a state the process     *)
(* eventually ends as failed, it neither runs on nor stays at that pc for  *)
(* ever.                                                                   *)
C12_UnhandledOpcodeIsFatal ==
    AtUnhandled ~> (status = "aborted" \/ status = "trapped")

(* execute(main_method, ...) has returned to main *)
MainReturned == status = "running" /\ result.returned /\ frames = << >>

(* C13: the activation of main starts with max_locals locals that are all  *)
(* 0, slot 0 included; and when it has returned the process ends as failed *)
(* if it returned a value (ireturn, areturn) and with exit status 0 if it  *)
(* returned none (return, fall-through), writing nothing more.             *)
C13_MainMustReturnVoid ==
    /\ Len(frames) = 1
    /\ cur.method = find_method_main(class)
    /\ cur.locals = [i \in 0 .. method.code.max_locals - 1 |-> 0]
    /\ [][MainReturned =>
             /\ status' = (IF result.has_value THEN "aborted" ELSE "exited")
             /\ UNCHANGED <<frames, result, heap, out>>]_vars

(* C13 witness: a main that printed its two untouched locals as 0 and then *)
(* ended at areturn has made the process fail                              *)
C13_Witness ==
    /\ class = MainLocalsClass(i_areturn)
    /\ out = <<0, 0>>
    /\ frames = << >>
    /\ result.has_value
    /\ status = "aborted"

(* the 8-bit immediate b as a signed number *)
SignExtend8(b) == IF b >= 128 THEN b - 256 ELSE b

(* the instruction at pc has its n operand bytes inside the code and the   *)
(* operand stack has room for one more value                               *)
CanPushAt(n) ==
    /\ cur.pc + n < method.code.code_length
    /\ sp >= 0 /\ sp < method.code.max_stack

(* the step stays in the activation, pushes v and advances pc by n *)
PushesOne(v, n) ==
    /\ SameActivation
    /\ curAfter.stack_count = sp + 1
    /\ curAfter.operand_stack[sp] = v
    /\ \A i \in 0 .. sp - 1 : curAfter.operand_stack[i] = stack(i)
    /\ curAfter.pc = cur.pc + n
    /\ curAfter.locals = cur.locals
    /\ UNCHANGED <<class, result, heap, out, status>>

(* C14: bipush pushes its immediate byte sign-extended and advances pc by  *)
(* 2; sipush pushes its big-endian 16-bit immediate sign-extended and      *)
(* advances pc by 3; iconst_m1 .. iconst_5 push opcode - 3 and advance pc  *)
(* by 1; ldc pushes the integer of constant-pool entry b, b its unsigned   *)
(* immediate byte counted from 1, and advances pc by 2; each raises sp by  *)
(* exactly 1 and changes nothing else.                                     *)
C14_LiteralPushes ==
    [][/\ (AtOp(i_bipush) /\ CanPushAt(1)) =>
            PushesOne(SignExtend8(code(cur.pc + 1)), 2)
       /\ (AtOp(i_sipush) /\ CanPushAt(2)) =>
            PushesOne(Displacement(code(cur.pc + 1), code(cur.pc + 2)), 3)
       /\ \A op \in i_iconst_m1 .. i_iconst_5 :
            (AtOp(op) /\ CanPushAt(0)) => PushesOne(op - 3, 1)
       /\ (AtOp(i_ldc) /\ CanPushAt(1)
             /\ code(cur.pc + 1) \in DOMAIN class.constant_pool) =>
            PushesOne(class.constant_pool[code(cur.pc + 1)].bytes, 2)]_vars

(* C14 witness: iconst_m1, bipush 0xFF and sipush 0xFFFF each pushed -1,   *)
(* which the program printed                                               *)
C14_Witness ==
    /\ class = LiteralClass(i_iconst_m1, 255, 255)
    /\ out = <<-1, -1, -1>>

(* C15: in every activation on the call chain 0 <= sp <= max_stack of its  *)
(* method, and its operand stack has no word at an index below 0 or at     *)
(* max_stack and above: a push on a full stack does not store past the     *)
(* stack's capacity.                                                       *)
C15_StackWithinBounds ==
    \A k \in 1 .. Len(frames) :
        LET max_stack == class.methods[frames[k].method].code.max_stack IN
           /\ frames[k].stack_count >= 0
           /\ frames[k].stack_count <= max_stack
           /\ DOMAIN frames[k].operand_stack = 0 .. max_stack - 1

(* C16: a taken conditional branch or goto at address p with displacement *)
(* d continues at p + d inside the code, 0 <= p + d < code_length: the     *)
(* step leaves the activation at an instruction, not past either end of    *)
(* the code where the loop would end it with a void return.                *)
C16_BranchesStayInCode ==
    [][\A op \in UnaryBranches \cup BinaryBranches \cup {i_goto} :
          (/\ AtOp(op) /\ sp >= BranchPops(op)
           /\ BranchHolds(op, IF op \in BinaryBranches THEN stack(sp - 2) ELSE 0,
                          IF op = i_goto THEN 0 ELSE stack(sp - 1))) =>
             /\ SameActivation
             /\ curAfter.pc = cur.pc + Displacement(code(cur.pc + 1), code(cur.pc + 2))
             /\ curAfter.pc >= 0
             /\ curAfter.pc < method.code.code_length]_vars

(* C17: every instruction that executes has its opcode and every operand   *)
(* byte it reads inside code[0 .. code_length): a step of the dispatch     *)
(* loop at pc reads no byte at pc + 1 or pc + 2 that lies at code_length   *)
(* or beyond, also when the opcode is the last or second-to-last byte.     *)
C17_ReadsStayInCode ==
    [][InLoop =>
          /\ cur.pc < method.code.code_length
          /\ cur.pc + operand_reads < method.code.code_length]_vars

(* the operand-stack blocks of the activations on the call chain *)
StackBlocks == {frames[k].operand_stack_block : k \in 1 .. Len(frames)}

(* the locals blocks that activations on the call chain have allocated for *)
(* a callee and not yet freed                                              *)
LocalsBlocks == {frames[k].locals_queue : k \in 1 .. Len(frames)} \ {0}

(* activation k is inside an invokestatic: its callee runs or has just     *)
(* returned                                                                *)
InCall(k) == k < Len(frames) \/ result.returned

(* C18: at every moment the allocated blocks are exactly the operand       *)
(* stacks of the activations on the call chain, one each, and the locals   *)
(* of their callees: one for each activation that is inside an             *)
(* invokestatic and none for the running one; nothing is allocated once    *)
(* main's activation has returned.  Each end of an activation (ireturn,    *)
(* areturn, return, fall-through) frees its operand stack, which was       *)
(* allocated, and nothing else; the resumption of the caller frees the     *)
(* callee's locals, which were allocated, and nothing else; a call         *)
(* allocates two blocks that were not allocated; no other step allocates   *)
(* or frees.                                                               *)
C18_AllocationsFollowCallChain ==
    /\ [](/\ allocated = StackBlocks \cup LocalsBlocks
          /\ StackBlocks \cap LocalsBlocks = {}
          /\ 0 \notin StackBlocks
          /\ Cardinality(StackBlocks) = Len(frames)
          /\ Cardinality(LocalsBlocks) = Cardinality({k \in 1 .. Len(frames) : InCall(k)})
          /\ \A k \in 1 .. Len(frames) : (frames[k].locals_queue # 0) = InCall(k)
          /\ frames = << >> => allocated = {})
    /\ [][/\ ActivationEnds =>
               /\ cur.operand_stack_block \in allocated
               /\ allocated' = allocated \ {cur.operand_stack_block}
          /\ (Returned /\ frames # << >> /\ status' = "running") =>
               /\ cur.locals_queue \in allocated
               /\ allocated' = allocated \ {cur.locals_queue}
          /\ (AtOp(i_invokestatic) /\ Len(frames') = Len(frames) + 1) =>
               /\ Cardinality(allocated' \ allocated) = 2
               /\ allocated \subseteq allocated'
          /\ (~ActivationEnds /\ ~(Returned /\ frames # << >>) /\ ~AtOp(i_invokestatic))
               => allocated' = allocated]_vars

(* C18 witness: after fact(3), four activations deep, main has returned    *)
(* and nothing is allocated                                                *)
C18_Witness ==
    /\ class = FactClass(3)
    /\ out = <<6>>
    /\ MainReturned
    /\ allocated = {}

(* the locals and the operand-stack entries below index n of frame g are   *)
(* those of frame f                                                        *)
SameLocalsAndStackBelow(f, g, n) ==
    /\ g.method = f.method
    /\ g.locals = f.locals
    /\ \A i \in 0 .. n - 1 : g.operand_stack[i] = f.operand_stack[i]

(* C19: across an invokestatic of a method with n parameters the caller's  *)
(* locals and its operand-stack entries below the n arguments stay as they *)
(* were: the call step changes of the caller's frame only sp, by -n; no    *)
(* step of the callee or of activations nested in it, and no return,       *)
(* changes the locals, stack entries, sp or pc of a frame below the        *)
(* running one; and the resumption changes only sp and the slot of the     *)
(* pushed result, if there is one, and pc by 3.                            *)
C19_FrameIsolation ==
    [][/\ (AtOp(i_invokestatic) /\ Len(frames') = Len(frames) + 1) =>
            LET n == class.methods[curAfter.method].parameters
                caller == frames'[Len(frames)]
            IN /\ SameLocalsAndStackBelow(cur, caller, sp - n)
               /\ caller.stack_count = sp - n
               /\ caller.pc = cur.pc
       /\ \A k \in 1 .. Len(frames) - 1 :
            /\ k <= Len(frames')
            /\ SameLocalsAndStackBelow(frames[k], frames'[k], frames[k].stack_count)
            /\ frames'[k].stack_count = frames[k].stack_count
            /\ frames'[k].pc = frames[k].pc
       /\ (Returned /\ frames # << >> /\ status' = "running") =>
            /\ Len(frames') = Len(frames)
            /\ SameLocalsAndStackBelow(cur, curAfter, sp)
            /\ curAfter.stack_count = sp + (IF result.has_value THEN 1 ELSE 0)
            /\ curAfter.pc = cur.pc + 3]_vars

(* C19 witness: after a callee that overwrote its five locals and used its *)
(* stack, main printed the returned 5, then the 77 it had kept on its      *)
(* stack below the arguments and the 9 it had kept in local 1              *)
C19_Witness ==
    /\ class = CallClass(1, 2, 2, i_ireturn)
    /\ out = <<1, 2, 2, 0, 0, 5, 77, 9>>
    /\ status = "exited"

(* C20: a step changes the heap only if it is a newarray or an iastore,    *)
(* and never removes a reference.  A newarray that allocates keeps every   *)
(* array and adds one at the end, under a reference no array had.  An      *)
(* iastore with 0 <= index < count changes exactly the element at that     *)
(* index of the array it names: the array's slot 0, its other elements and *)
(* every other array stay as they were.                                    *)
C20_HeapChangesOnlyByArrayOps ==
    [][/\ heap' # heap => (AtOp(i_newarray) \/ AtOp(i_iastore))
       /\ Len(heap') >= Len(heap)
       /\ (AtOp(i_newarray) /\ heap' # heap) =>
            /\ Len(heap') = Len(heap) + 1
            /\ \A r \in 1 .. Len(heap) : heap'[r] = heap[r]
            /\ curAfter.operand_stack[sp - 1] = Len(heap)
            /\ curAfter.operand_stack[sp - 1] \notin {r - 1 : r \in 1 .. Len(heap)}
       /\ (AtOp(i_iastore) /\ sp >= 3 /\ ElementOf(stack(sp - 3), stack(sp - 2))) =>
            LET ref == stack(sp - 3)
                index == stack(sp - 2)
            IN /\ Len(heap') = Len(heap)
               /\ \A r \in 1 .. Len(heap) : r # ref + 1 => heap'[r] = heap[r]
               /\ DOMAIN heap'[ref + 1] = DOMAIN heap[ref + 1]
               /\ \A s \in DOMAIN heap[ref + 1] :
                    heap'[ref + 1][s] = (IF s = index + 1 THEN stack(sp - 1)
                                         ELSE heap[ref + 1][s])]_vars

(* C20 witness: two arrays, each stored to once in range, each holding     *)
(* only its own store                                                      *)
C20_Witness ==
    /\ class = ArrayClass(2, 10, 0, -1, 0)
    /\ Len(heap) = 2
    /\ heap[1] = [s \in 0 .. 2 |-> IF s = 0 THEN 2 ELSE IF s = 1 THEN -1 ELSE 0]
    /\ heap[2] = [s \in 0 .. 1 |-> IF s = 0 THEN 1 ELSE 5]
    /\ out = <<-1, 2, 1>>

(* C21: the heap is one store for all activations.  A call, the end of an  *)
(* activation and the resumption of its caller leave every array of the    *)
(* heap as it is, so an array allocated or stored to by a callee is there  *)
(* unchanged when the callee's frame is gone; areturn hands the caller the *)
(* reference that was on top of the callee's stack; and at any depth of    *)
(* the call chain iastore writes, and iaload and arraylength read, the     *)
(* array that the reference names in that one heap.                        *)
C21_HeapIsShared ==
    [][/\ (ActivationEnds \/ AtOp(i_invokestatic) \/ (Returned /\ frames # << >>))
            => heap' = heap
       /\ (AtOp(i_areturn) /\ sp >= 1) =>
            /\ result'.has_value
            /\ result'.value = stack(sp - 1)
       /\ (Returned /\ frames # << >> /\ result.has_value /\ status' = "running") =>
            curAfter.operand_stack[sp] = result.value
       /\ (AtOp(i_iastore) /\ sp >= 3 /\ ElementOf(stack(sp - 3), stack(sp - 2))) =>
            heap' = [heap EXCEPT ![stack(sp - 3) + 1][stack(sp - 2) + 1] = stack(sp - 1)]
       /\ (AtOp(i_iaload) /\ sp >= 2 /\ ElementOf(stack(sp - 2), stack(sp - 1))) =>
            curAfter.operand_stack[sp - 2] = heap[stack(sp - 2) + 1][stack(sp - 1) + 1]
       /\ (AtOp(i_arraylength) /\ sp >= 1
             /\ stack(sp - 1) >= 0 /\ stack(sp - 1) < Len(heap)) =>
            curAfter.operand_stack[sp - 1] = heap[stack(sp - 1) + 1][0]]_vars

(* C21 witness: main has read back the 7 its callee stored through the     *)
(* reference passed as argument, and the element 42 and the count 3 of the *)
(* array the callee allocated and returned by areturn                      *)
C21_Witness ==
    /\ class = ShareClass(7)
    /\ Len(frames) = 1
    /\ out = <<7, 42, 3>>
    /\ Len(heap) = 2
    /\ heap[1][2] = 7
    /\ heap[2][1] = 42

=============================================================================
